---- MODULE Spec2Model ----
(***************************************************************************)
(* Model of mage_ai/frontend/storage/ApplicationManager/cache.ts: the      *)
(* registry of open applications kept under one localStorage key, the      *)
(* layout geometry (minimum / default layout), the layout merge            *)
(* (updateLayout), the validation pass (validateLayout) and the lifecycle  *)
(* entry points updateApplication / closeApplication / getApplications.    *)
(*                                                                         *)
(* JavaScript values are modelled as tagged records so that undefined,     *)
(* null and numbers can be told apart: Undefined, Null, Num(n).  An object *)
(* is a record that carries every key the code reads; a key the object     *)
(* does not have holds Undefined.                                          *)
(***************************************************************************)
EXTENDS Integers, Sequences, FiniteSets, TLC

VARIABLES storage, window, last, phase, calls, inflight

vars == <<storage, window, last, phase, calls, inflight>>

(***************************************************************************)
(* JavaScript values                                                       *)
(***************************************************************************)
Undefined == [t |-> "undefined", n |-> 0]

Null == [t |-> "null", n |-> 0]

Num(n) == [t |-> "number", n |-> n]

IsNum(v) == v.t = "number"

\* JavaScript truthiness of a value (undefined, null and 0 are falsy; every
\* object is truthy).
Truthy(v) == v # Undefined /\ v # Null /\ v # Num(0)

\* a || b
Or(a, b) == IF Truthy(a) THEN a ELSE b

\* a > b on JavaScript values: false as soon as one side is undefined.
Gt(a, b) == IsNum(a) /\ IsNum(b) /\ a.n > b.n

Max(a, b) == IF a >= b THEN a ELSE b

Min(a, b) == IF a <= b THEN a ELSE b

(***************************************************************************)
(* Program constants                                                       *)
(***************************************************************************)
APPLICATION_PADDING == 16

CLOSED == "CLOSED"

\* The status values other than CLOSED that the model feeds in.
OpenStatuses == {"OPEN", "MINIMIZED"}

\* The application identities the model feeds in.
UUIDs == {"A", "B"}

\* Opaque application configurations.
Configurations == {[name |-> "cfg1"], [name |-> "cfg2"]}

\* Upper bound on the number of updateApplication / closeApplication calls
\* in one behaviour.
MaxCalls == 3

(***************************************************************************)
(* Layout geometry                                                         *)
(***************************************************************************)
minimumLayout ==
  [dimension |-> [height |-> Num(240), width |-> Num(300)],
   position  |-> [x |-> Num(0), y |-> Num(0), z |-> Num(100)]]

\* The host window: typeof window !== 'undefined', and its visible size.
\* Sizes are even pixel counts, for which the division by 2 of the centring
\* is exact.
WindowSizes == {<<600, 800>>, <<1400, 2000>>}

NoWindow == [defined |-> FALSE, innerHeight |-> 0, innerWidth |-> 0]

Windows ==
  {NoWindow} \cup
  {[defined |-> TRUE, innerHeight |-> hw[1], innerWidth |-> hw[2]] :
     hw \in WindowSizes}

\* totalHeightProp || typeof window !== 'undefined' ? window?.innerHeight : 1200
\* parses as (totalHeightProp || typeof window !== 'undefined') ? ... : 1200.
\* Reading window when it is not declared throws a ReferenceError, modelled
\* as the value Undefined with ResolveThrows true.
ResolveThrows(prop, win) == Truthy(prop) /\ ~win.defined

\* The outcome of a call that threw a ReferenceError.
ReferenceError == [t |-> "ReferenceError", n |-> 0]

ResolveTotal(prop, inner, fallback, win) ==
  IF Truthy(prop) \/ win.defined
    THEN (IF win.defined THEN inner ELSE Undefined)
    ELSE fallback

buildDefaultLayoutAt(totalHeight, totalWidth) ==
  LET height == Max(Min(totalHeight, 1200), 784) - (APPLICATION_PADDING * 2)
      width  == Max(Min(totalWidth, 1500), 980) - (APPLICATION_PADDING * 2)
  IN  [dimension |-> [height |-> Num(height), width |-> Num(width)],
       position  |-> [x |-> Num((totalWidth - width) \div 2),
                      y |-> Num((totalHeight - height) \div 2),
                      z |-> Num(10)]]

\* buildDefaultLayout({height: totalHeightProp, width: totalWidthProp});
\* the no-argument call passes null, null.
buildDefaultLayout(totalHeightProp, totalWidthProp, win) ==
  LET totalHeight == ResolveTotal(totalHeightProp, Num(win.innerHeight), Num(1200), win)
      totalWidth  == ResolveTotal(totalWidthProp, Num(win.innerWidth), Num(1500), win)
  IN  IF ResolveThrows(totalHeightProp, win) \/ ResolveThrows(totalWidthProp, win)
        THEN ReferenceError
        ELSE buildDefaultLayoutAt(totalHeight.n, totalWidth.n)

\* Number(v) for a number or null.
ToNumber(v) == IF IsNum(v) THEN v.n ELSE 0

\* buildMaximumLayout({height: totalHeightProp, width: totalWidthProp}); the
\* fallback of the viewport is null, which the arithmetic reads as 0.
buildMaximumLayout(totalHeightProp, totalWidthProp, win) ==
  LET totalHeight == ToNumber(ResolveTotal(totalHeightProp, Num(win.innerHeight), Null, win))
      totalWidth  == ToNumber(ResolveTotal(totalWidthProp, Num(win.innerWidth), Null, win))
      height == totalHeight - (APPLICATION_PADDING * 2)
      width  == totalWidth - (APPLICATION_PADDING * 2)
  IN  IF ResolveThrows(totalHeightProp, win) \/ ResolveThrows(totalWidthProp, win)
        THEN ReferenceError
        ELSE [dimension |-> [height |-> Num(height), width |-> Num(width)],
              position  |-> [x |-> Num((totalWidth - width) \div 2),
                             y |-> Num((totalHeight - height) \div 2),
                             z |-> Num(10)]]

(***************************************************************************)
(* Objects of the registry                                                 *)
(***************************************************************************)
\* {} read as a dimension / position: every key absent.
EmptyDimension == [height |-> Undefined, width |-> Undefined]

EmptyPosition == [x |-> Undefined, y |-> Undefined, z |-> Undefined]

\* layout?.dimension and layout?.position
DimensionOf(layout) == IF layout = Undefined THEN Undefined ELSE layout.dimension

PositionOf(layout) == IF layout = Undefined THEN Undefined ELSE layout.position

\* app?.layout
LayoutOf(app) == IF app = Undefined THEN Undefined ELSE app.layout

\* state?.status === StatusEnum.CLOSED
IsClosed(state) == state # Undefined /\ state.status = CLOSED

\* {} read as an application entry.
EmptyApplication ==
  [uuid |-> Undefined, layout |-> Undefined, state |-> Undefined,
   applicationConfiguration |-> Undefined]

\* selectEntriesWithValues(obj): the entries of obj whose value is neither
\* null nor undefined.
selectDimensionWithValues(obj) ==
  [height |-> IF obj.height = Null THEN Undefined ELSE obj.height,
   width  |-> IF obj.width = Null THEN Undefined ELSE obj.width]

selectPositionWithValues(obj) ==
  [x |-> IF obj.x = Null THEN Undefined ELSE obj.x,
   y |-> IF obj.y = Null THEN Undefined ELSE obj.y,
   z |-> IF obj.z = Null THEN Undefined ELSE obj.z]

\* One key of {...a, ...b}: b's entry when b has the key, else a's.
Over(a, b) == IF b # Undefined THEN b ELSE a

(***************************************************************************)
(* Layout reconciler                                                       *)
(***************************************************************************)
\* Mutant: an oversized dimension is clamped but the position is kept.
updateLayout_noReposition(layout, layoutPrev, win) ==
  IF ~Truthy(layout) /\ ~Truthy(layoutPrev)
    THEN buildDefaultLayout(Null, Null, win)
    ELSE
      LET prevPos == selectPositionWithValues(Or(PositionOf(layoutPrev), EmptyPosition))
          newPos  == selectPositionWithValues(Or(PositionOf(layout), EmptyPosition))
          prevDim == selectDimensionWithValues(Or(DimensionOf(layoutPrev), EmptyDimension))
          newDim  == selectDimensionWithValues(Or(DimensionOf(layout), EmptyDimension))
          dimension == [height |-> Over(prevDim.height, newDim.height),
                        width  |-> Over(prevDim.width, newDim.width)]
          dimensionDefault == buildDefaultLayout(Null, Null, win).dimension
      IN  [dimension |->
             [height |-> IF Gt(dimension.height, dimensionDefault.height)
                           THEN dimensionDefault.height ELSE dimension.height,
              width  |-> IF Gt(dimension.width, dimensionDefault.width)
                           THEN dimensionDefault.width ELSE dimension.width],
           position |->
             [x |-> Over(prevPos.x, newPos.x),
              y |-> Over(prevPos.y, newPos.y),
              z |-> Over(prevPos.z, newPos.z)]]

\* Mutant: the previous layout is not merged in.
updateLayout_ignorePrevious(layout, layoutPrev, win) ==
  IF ~Truthy(layout) /\ ~Truthy(layoutPrev)
    THEN buildDefaultLayout(Null, Null, win)
    ELSE
      LET position == selectPositionWithValues(Or(PositionOf(layout), EmptyPosition))
          dimension == selectDimensionWithValues(Or(DimensionOf(layout), EmptyDimension))
          default == buildDefaultLayout(Null, Null, win)
          clampH == Gt(dimension.height, default.dimension.height)
          clampW == Gt(dimension.width, default.dimension.width)
      IN  [dimension |->
             [height |-> IF clampH THEN default.dimension.height ELSE dimension.height,
              width  |-> IF clampW THEN default.dimension.width ELSE dimension.width],
           position |->
             [x |-> IF clampW THEN default.position.x ELSE position.x,
              y |-> IF clampH THEN default.position.y ELSE position.y,
              z |-> position.z]]

\* Mutant: the height clamp resets x and the width clamp resets y.
updateLayout_swappedAxes(layout, layoutPrev, win) ==
  IF ~Truthy(layout) /\ ~Truthy(layoutPrev)
    THEN buildDefaultLayout(Null, Null, win)
    ELSE
      LET prevPos == selectPositionWithValues(Or(PositionOf(layoutPrev), EmptyPosition))
          newPos  == selectPositionWithValues(Or(PositionOf(layout), EmptyPosition))
          position == [x |-> Over(prevPos.x, newPos.x),
                       y |-> Over(prevPos.y, newPos.y),
                       z |-> Over(prevPos.z, newPos.z)]
          prevDim == selectDimensionWithValues(Or(DimensionOf(layoutPrev), EmptyDimension))
          newDim  == selectDimensionWithValues(Or(DimensionOf(layout), EmptyDimension))
          dimension == [height |-> Over(prevDim.height, newDim.height),
                        width  |-> Over(prevDim.width, newDim.width)]
          default == buildDefaultLayout(Null, Null, win)
          dimensionDefault == default.dimension
          positionDefault == default.position
          clampH == Gt(dimension.height, dimensionDefault.height)
          clampW == Gt(dimension.width, dimensionDefault.width)
      IN  [dimension |->
             [height |-> IF clampH THEN dimensionDefault.height ELSE dimension.height,
              width  |-> IF clampW THEN dimensionDefault.width ELSE dimension.width],
           position |->
             [x |-> IF clampH THEN positionDefault.x ELSE position.x,
              y |-> IF clampW THEN positionDefault.y ELSE position.y,
              z |-> position.z]]

\* Mutant: the merged dimension is not clamped to the default layout.
updateLayout_noClamp(layout, layoutPrev, win) ==
  IF ~Truthy(layout) /\ ~Truthy(layoutPrev)
    THEN buildDefaultLayout(Null, Null, win)
    ELSE
      LET prevPos == selectPositionWithValues(Or(PositionOf(layoutPrev), EmptyPosition))
          newPos  == selectPositionWithValues(Or(PositionOf(layout), EmptyPosition))
          position == [x |-> Over(prevPos.x, newPos.x),
                       y |-> Over(prevPos.y, newPos.y),
                       z |-> Over(prevPos.z, newPos.z)]
          prevDim == selectDimensionWithValues(Or(DimensionOf(layoutPrev), EmptyDimension))
          newDim  == selectDimensionWithValues(Or(DimensionOf(layout), EmptyDimension))
          dimension == [height |-> Over(prevDim.height, newDim.height),
                        width  |-> Over(prevDim.width, newDim.width)]
          default == buildDefaultLayout(Null, Null, win)
          dimensionDefault == default.dimension
          positionDefault == default.position
          clampH == Gt(dimension.height, dimensionDefault.height)
          clampW == Gt(dimension.width, dimensionDefault.width)
      IN  [dimension |->
             [height |-> dimension.height,
              width  |-> dimension.width],
           position |->
             [x |-> position.x,
              y |-> position.y,
              z |-> position.z]]

\* Mutant: fields that neither layout supplies are taken from the default
\* layout.
updateLayout_defaultsMissing(layout, layoutPrev, win) ==
  IF ~Truthy(layout) /\ ~Truthy(layoutPrev)
    THEN buildDefaultLayout(Null, Null, win)
    ELSE
      LET prevPos == selectPositionWithValues(Or(PositionOf(layoutPrev), EmptyPosition))
          newPos  == selectPositionWithValues(Or(PositionOf(layout), EmptyPosition))
          default == buildDefaultLayout(Null, Null, win)
          dimensionDefault == default.dimension
          positionDefault == default.position
          position == [x |-> Over(positionDefault.x, Over(prevPos.x, newPos.x)),
                       y |-> Over(positionDefault.y, Over(prevPos.y, newPos.y)),
                       z |-> Over(prevPos.z, newPos.z)]
          prevDim == selectDimensionWithValues(Or(DimensionOf(layoutPrev), EmptyDimension))
          newDim  == selectDimensionWithValues(Or(DimensionOf(layout), EmptyDimension))
          dimension == [height |-> Over(dimensionDefault.height,
                                        Over(prevDim.height, newDim.height)),
                        width  |-> Over(dimensionDefault.width,
                                        Over(prevDim.width, newDim.width))]
          clampH == Gt(dimension.height, dimensionDefault.height)
          clampW == Gt(dimension.width, dimensionDefault.width)
      IN  [dimension |->
             [height |-> IF clampH THEN dimensionDefault.height ELSE dimension.height,
              width  |-> IF clampW THEN dimensionDefault.width ELSE dimension.width],
           position |->
             [x |-> IF clampW THEN positionDefault.x ELSE position.x,
              y |-> IF clampH THEN positionDefault.y ELSE position.y,
              z |-> position.z]]

updateLayout(layout, layoutPrev, win) ==
  IF ~Truthy(layout) /\ ~Truthy(layoutPrev)
    THEN buildDefaultLayout(Null, Null, win)
    ELSE
      LET prevPos == selectPositionWithValues(Or(PositionOf(layoutPrev), EmptyPosition))
          newPos  == selectPositionWithValues(Or(PositionOf(layout), EmptyPosition))
          position == [x |-> Over(prevPos.x, newPos.x),
                       y |-> Over(prevPos.y, newPos.y),
                       z |-> Over(prevPos.z, newPos.z)]
          prevDim == selectDimensionWithValues(Or(DimensionOf(layoutPrev), EmptyDimension))
          newDim  == selectDimensionWithValues(Or(DimensionOf(layout), EmptyDimension))
          dimension == [height |-> Over(prevDim.height, newDim.height),
                        width  |-> Over(prevDim.width, newDim.width)]
          default == buildDefaultLayout(Null, Null, win)
          dimensionDefault == default.dimension
          positionDefault == default.position
          clampH == Gt(dimension.height, dimensionDefault.height)
          clampW == Gt(dimension.width, dimensionDefault.width)
      IN  [dimension |->
             [height |-> IF clampH THEN dimensionDefault.height ELSE dimension.height,
              width  |-> IF clampW THEN dimensionDefault.width ELSE dimension.width],
           position |->
             [x |-> IF clampW THEN positionDefault.x ELSE position.x,
              y |-> IF clampH THEN positionDefault.y ELSE position.y,
              z |-> position.z]]

(***************************************************************************)
(* Validation pass                                                         *)
(***************************************************************************)
\* Mutant: the candidate is not floored at the minimum.
Floor_noMinimum(candidate, minimum) == Or(candidate, Num(0))

\* Math.max(dig(layout, key) || 0, dig(minimumLayout(), key))
Floor(candidate, minimum) == Num(Max(Or(candidate, Num(0)).n, minimum.n))

\* Mutant: the floored height is stored as the width and the floored width as
\* the height.
validateLayout_swappedDimension(app) ==
  LET layout == app.layout
      layoutNew ==
        [dimension |->
           [height |-> Floor(layout.dimension.width, minimumLayout.dimension.width),
            width  |-> Floor(layout.dimension.height, minimumLayout.dimension.height)],
         position |->
           [x |-> Floor(layout.position.x, minimumLayout.position.x),
            y |-> Floor(layout.position.y, minimumLayout.position.y),
            z |-> Null]]
  IN  [app EXCEPT !.layout = layoutNew]

validateLayout(app) ==
  LET layout == app.layout
      layoutNew ==
        [dimension |->
           [height |-> Floor(layout.dimension.height, minimumLayout.dimension.height),
            width  |-> Floor(layout.dimension.width, minimumLayout.dimension.width)],
         position |->
           [x |-> Floor(layout.position.x, minimumLayout.position.x),
            y |-> Floor(layout.position.y, minimumLayout.position.y),
            z |-> Null]]
  IN  [app EXCEPT !.layout = layoutNew]

(***************************************************************************)
(* Key-value store adapter (localStorage get / set on the one registry     *)
(* key): value in, value out.  Before the first set the key is absent and  *)
(* get returns null.                                                       *)
(***************************************************************************)
NoStorage == [has |-> FALSE, value |-> <<>>]

\* get(LOCAL_STORAGE_KEY_APPLICATION_MANAGER) || []
getOrEmpty(stg) == IF stg.has THEN stg.value ELSE <<>>

\* set(LOCAL_STORAGE_KEY_APPLICATION_MANAGER, value)
set(value) == [has |-> TRUE, value |-> value]

(***************************************************************************)
(* Application registry                                                    *)
(***************************************************************************)
\* A string argument that may be left out: Undefined, or Str(s).
Str(s) == [t |-> "string", s |-> s]

\* arr.filter(a => !!a)
FilterTruthy(arr) == SelectSeq(arr, LAMBDA a : Truthy(a))

\* app?.state?.status === status
StatusIs(app, status) == app.state # Undefined /\ Str(app.state.status) = status

\* Mutant: the two constraints of the filter are OR-ed.
getApplications_eitherMatches(status, uuid, stg) ==
  LET arr == FilterTruthy(getOrEmpty(stg))
  IN  IF Truthy(status) \/ Truthy(uuid)
        THEN SelectSeq(arr, LAMBDA app :
               \/ (Truthy(status) /\ StatusIs(app, status))
               \/ (Truthy(uuid) /\ Str(app.uuid) = uuid))
        ELSE arr

getApplications(status, uuid, stg) ==
  LET arr == FilterTruthy(getOrEmpty(stg))
  IN  IF Truthy(status) \/ Truthy(uuid)
        THEN SelectSeq(arr, LAMBDA app :
               /\ (~Truthy(status) \/ StatusIs(app, status))
               /\ (~Truthy(uuid) \/ Str(app.uuid) = uuid))
        ELSE arr

getCurrentlyOpenedApplications(stg) ==
  SelectSeq(getApplications(Undefined, Undefined, stg),
            LAMBDA app : ~IsClosed(app.state))

(***************************************************************************)
(* Application lifecycle manager                                           *)
(***************************************************************************)
\* apps.findIndex(({uuid: uuid2}) => uuid === uuid2), on 1-based sequences:
\* the first matching index, 0 where JavaScript gives -1.
findIndex(apps, uuid) ==
  IF \E i \in 1..Len(apps) : apps[i].uuid = uuid
    THEN CHOOSE i \in 1..Len(apps) :
           /\ apps[i].uuid = uuid
           /\ \A j \in 1..(i - 1) : apps[j].uuid # uuid
    ELSE 0

\* Mutant: the stored entry is not spread under the patch.
SpreadApplication_patchOnly(app, application) ==
  [uuid |-> application.uuid,
   layout |-> application.layout,
   state |-> application.state,
   applicationConfiguration |-> application.applicationConfiguration]

\* {...(app || {}), ...application}; application always carries uuid.
SpreadApplication(app, application) ==
  LET base == Or(app, EmptyApplication)
  IN  [uuid |-> application.uuid,
       layout |-> Over(base.layout, application.layout),
       state |-> Over(base.state, application.state),
       applicationConfiguration |->
         Over(base.applicationConfiguration, application.applicationConfiguration)]

\* Mutant: an entry is always pushed, whether or not the uuid has one.
updateApplication_alwaysPush(application, stg, win) ==
  LET state == application.state
      uuid  == application.uuid
      apps  == getApplications(Undefined, Undefined, stg)
  IN  IF IsClosed(state)
        THEN [apps |-> SelectSeq(apps, LAMBDA a : uuid # a.uuid),
              appUpdated |-> Undefined]
        ELSE
          LET index == findIndex(apps, uuid)
              app == IF index > 0 THEN apps[index] ELSE Undefined
              layout == updateLayout(application.layout, LayoutOf(app), win)
              appUpdated ==
                validateLayout(
                  SpreadApplication(app, [application EXCEPT !.layout = layout]))
          IN  [apps |-> Append(apps, appUpdated), appUpdated |-> appUpdated]

\* Mutant: a close leaves the registry as it was read.
updateApplication_closeKeeps(application, stg, win) ==
  LET state == application.state
      uuid  == application.uuid
      apps  == getApplications(Undefined, Undefined, stg)
  IN  IF IsClosed(state)
        THEN [apps |-> apps, appUpdated |-> Undefined]
        ELSE
          LET index == findIndex(apps, uuid)
              app == IF index > 0 THEN apps[index] ELSE Undefined
              layout == updateLayout(application.layout, LayoutOf(app), win)
              appUpdated ==
                validateLayout(
                  SpreadApplication(app, [application EXCEPT !.layout = layout]))
          IN  [apps |-> IF index > 0
                          THEN [apps EXCEPT ![index] = appUpdated]
                          ELSE Append(apps, appUpdated),
               appUpdated |-> appUpdated]

\* Mutant: a close marks the entries of the uuid CLOSED and keeps them.
updateApplication_closeMarks(application, stg, win) ==
  LET state == application.state
      uuid  == application.uuid
      apps  == getApplications(Undefined, Undefined, stg)
  IN  IF IsClosed(state)
        THEN [apps |-> [i \in DOMAIN apps |->
                         IF apps[i].uuid = uuid
                           THEN [apps[i] EXCEPT !.state = state]
                           ELSE apps[i]],
              appUpdated |-> Undefined]
        ELSE
          LET index == findIndex(apps, uuid)
              app == IF index > 0 THEN apps[index] ELSE Undefined
              layout == updateLayout(application.layout, LayoutOf(app), win)
              appUpdated ==
                validateLayout(
                  SpreadApplication(app, [application EXCEPT !.layout = layout]))
          IN  [apps |-> IF index > 0
                          THEN [apps EXCEPT ![index] = appUpdated]
                          ELSE Append(apps, appUpdated),
               appUpdated |-> appUpdated]

\* Mutant: an updated entry is moved to the end of the registry.
updateApplication_moveToEnd(application, stg, win) ==
  LET state == application.state
      uuid  == application.uuid
      apps  == getApplications(Undefined, Undefined, stg)
  IN  IF IsClosed(state)
        THEN [apps |-> SelectSeq(apps, LAMBDA a : uuid # a.uuid),
              appUpdated |-> Undefined]
        ELSE
          LET index == findIndex(apps, uuid)
              app == IF index > 0 THEN apps[index] ELSE Undefined
              layout == updateLayout(application.layout, LayoutOf(app), win)
              appUpdated ==
                validateLayout(
                  SpreadApplication(app, [application EXCEPT !.layout = layout]))
          IN  [apps |-> Append(SelectSeq(apps, LAMBDA a : uuid # a.uuid), appUpdated),
               appUpdated |-> appUpdated]

\* Mutant: the entry read from the registry is returned.
updateApplication_returnsPrevious(application, stg, win) ==
  LET state == application.state
      uuid  == application.uuid
      apps  == getApplications(Undefined, Undefined, stg)
  IN  IF IsClosed(state)
        THEN [apps |-> SelectSeq(apps, LAMBDA a : uuid # a.uuid),
              appUpdated |-> Undefined]
        ELSE
          LET index == findIndex(apps, uuid)
              app == IF index > 0 THEN apps[index] ELSE Undefined
              layout == updateLayout(application.layout, LayoutOf(app), win)
              appUpdated ==
                validateLayout(
                  SpreadApplication(app, [application EXCEPT !.layout = layout]))
          IN  [apps |-> IF index > 0
                          THEN [apps EXCEPT ![index] = appUpdated]
                          ELSE Append(apps, appUpdated),
               appUpdated |-> app]

\* Mutant: a close empties the registry.
updateApplication_closeClears(application, stg, win) ==
  LET state == application.state
      uuid  == application.uuid
      apps  == getApplications(Undefined, Undefined, stg)
  IN  IF IsClosed(state)
        THEN [apps |-> <<>>, appUpdated |-> Undefined]
        ELSE
          LET index == findIndex(apps, uuid)
              app == IF index > 0 THEN apps[index] ELSE Undefined
              layout == updateLayout(application.layout, LayoutOf(app), win)
              appUpdated ==
                validateLayout(
                  SpreadApplication(app, [application EXCEPT !.layout = layout]))
          IN  [apps |-> IF index > 0
                          THEN [apps EXCEPT ![index] = appUpdated]
                          ELSE Append(apps, appUpdated),
               appUpdated |-> appUpdated]

\* Mutant: a close keeps the entries of the uuid and removes the others.
updateApplication_closeKeepsMatching(application, stg, win) ==
  LET state == application.state
      uuid  == application.uuid
      apps  == getApplications(Undefined, Undefined, stg)
  IN  IF IsClosed(state)
        THEN [apps |-> SelectSeq(apps, LAMBDA a : uuid = a.uuid),
              appUpdated |-> Undefined]
        ELSE
          LET index == findIndex(apps, uuid)
              app == IF index > 0 THEN apps[index] ELSE Undefined
              layout == updateLayout(application.layout, LayoutOf(app), win)
              appUpdated ==
                validateLayout(
                  SpreadApplication(app, [application EXCEPT !.layout = layout]))
          IN  [apps |-> IF index > 0
                          THEN [apps EXCEPT ![index] = appUpdated]
                          ELSE Append(apps, appUpdated),
               appUpdated |-> appUpdated]

\* The body of updateApplication on the registry read from storage: apps is
\* the array before the final filter and set, appUpdated the value returned.
updateApplication(application, stg, win) ==
  LET state == application.state
      uuid  == application.uuid
      apps  == getApplications(Undefined, Undefined, stg)
  IN  IF IsClosed(state)
        THEN [apps |-> SelectSeq(apps, LAMBDA a : uuid # a.uuid),
              appUpdated |-> Undefined]
        ELSE
          LET index == findIndex(apps, uuid)
              app == IF index > 0 THEN apps[index] ELSE Undefined
              layout == updateLayout(application.layout, LayoutOf(app), win)
              appUpdated ==
                validateLayout(
                  SpreadApplication(app, [application EXCEPT !.layout = layout]))
          IN  [apps |-> IF index > 0
                          THEN [apps EXCEPT ![index] = appUpdated]
                          ELSE Append(apps, appUpdated),
               appUpdated |-> appUpdated]

\* The argument closeApplication(uuid) builds for updateApplication.
closeArgument(uuid) ==
  [uuid |-> uuid, layout |-> Undefined, state |-> [status |-> CLOSED],
   applicationConfiguration |-> Undefined]

(***************************************************************************)
(* Inputs                                                                  *)
(***************************************************************************)
\* Layout fragments a caller passes, built with Layout(height, width, x, y, z);
\* a dimension or position object none of whose keys is given is left out.
Dimension(height, width) ==
  IF height = Undefined /\ width = Undefined
    THEN Undefined
    ELSE [height |-> height, width |-> width]

Position(x, y, z) ==
  IF x = Undefined /\ y = Undefined /\ z = Undefined
    THEN Undefined
    ELSE [x |-> x, y |-> y, z |-> z]

Layout(height, width, x, y, z) ==
  [dimension |-> Dimension(height, width), position |-> Position(x, y, z)]

LayoutInputs ==
  { Undefined,
    \* larger than every default layout
    Layout(Num(2000), Num(2000), Undefined, Undefined, Undefined),
    \* one axis only
    Layout(Num(2000), Undefined, Undefined, Undefined, Undefined),
    Layout(Undefined, Num(1000), Undefined, Undefined, Undefined),
    \* position only
    Layout(Undefined, Undefined, Num(999), Undefined, Undefined),
    Layout(Undefined, Undefined, Num(50), Num(60), Num(7)),
    \* zero, negative, null and small values
    Layout(Num(0), Num(-20), Num(-5), Null, Undefined),
    \* within every bound
    Layout(Num(500), Num(600), Num(30), Num(40), Undefined) }

StateInputs == {Undefined} \cup {[status |-> s] : s \in OpenStatuses \cup {CLOSED}}

\* The arguments of updateApplication: a layout fragment alone, or state and
\* configuration alone, or an opening call with all three.
Applications ==
  [uuid : UUIDs, layout : LayoutInputs, state : {Undefined},
   applicationConfiguration : {Undefined}]
  \cup
  [uuid : UUIDs, layout : {Undefined}, state : StateInputs,
   applicationConfiguration : {Undefined, [name |-> "cfg1"]}]
  \cup
  [uuid : UUIDs,
   layout : {Layout(Num(2000), Num(2000), Undefined, Undefined, Num(7))},
   state : {[status |-> "OPEN"]}, applicationConfiguration : Configurations]

(***************************************************************************)
(* State machine                                                           *)
(*   storage  the value under the registry key                             *)
(*   window   the host window                                              *)
(*   last     the lifecycle call that has just completed: its argument,    *)
(*            the value it returned, the registry it read and the phase    *)
(*            its uuid was in; NoCall once the caller has moved on         *)
(*   phase    per uuid, the calls that named it so far                     *)
(*   calls    number of lifecycle calls made                               *)
(*   inflight per caller, a call whose read and write of the registry are  *)
(*            separate steps: its position, its argument, the storage      *)
(*            value it read, the value it returned and the store           *)
(*            operations it has performed                                  *)
(* Calls are made from the single UI thread: each runs to completion, and  *)
(* window events are handled between calls.                                *)
(***************************************************************************)
\* The callers whose calls may overlap (two tabs on the one localStorage), and
\* a caller that is not in a call.
Tabs == {1, 2}

NotCalling ==
  [pc |-> "idle", application |-> Undefined, snapshot |-> NoStorage,
   ret |-> Undefined, ops |-> <<>>]

NoCall ==
  [op |-> "none", application |-> Undefined, ret |-> Undefined, pre |-> <<>>,
   prePhase |-> "never"]

Init ==
  /\ storage = NoStorage
  /\ window \in Windows
  /\ last = NoCall
  /\ phase = [u \in UUIDs |-> "never"]
  /\ calls = 0
  /\ inflight = [tab \in Tabs |-> NotCalling]

\* phase of a uuid after a call naming it.
NextPhase(p, closing) ==
  IF closing
    THEN (IF p \in {"never", "closedUnopened"} THEN "closedUnopened" ELSE "closed")
    ELSE (IF p \in {"closed", "reopened"} THEN "reopened" ELSE "open")

Call(op, application, returns) ==
  /\ last = NoCall
  /\ calls < MaxCalls
  /\ LET r == updateApplication(application, storage, window)
     IN  /\ storage' = set(FilterTruthy(r.apps))
         /\ last' = [op |-> op, application |-> application,
                     ret |-> IF returns THEN r.appUpdated ELSE Undefined,
                     pre |-> getApplications(Undefined, Undefined, storage),
                     prePhase |-> phase[application.uuid]]
  /\ phase' = [phase EXCEPT ![application.uuid] = NextPhase(@, IsClosed(application.state))]
  /\ calls' = calls + 1
  /\ UNCHANGED <<window, inflight>>

UpdateApplication ==
  \E application \in Applications : Call("updateApplication", application, TRUE)

\* closeApplication(uuid) calls updateApplication and returns nothing.
CloseApplication ==
  \E uuid \in UUIDs : Call("closeApplication", closeArgument(uuid), FALSE)

\* The caller is done with the returned value.
Return ==
  /\ last # NoCall
  /\ last' = NoCall
  /\ UNCHANGED <<storage, window, phase, calls, inflight>>

\* The user resizes the host window between calls.
Resize ==
  /\ last = NoCall
  /\ window.defined
  /\ \E win \in Windows : win.defined /\ win # window /\ window' = win
  /\ UNCHANGED <<storage, last, phase, calls, inflight>>

Next == UpdateApplication \/ CloseApplication \/ Return \/ Resize

Spec == Init /\ [][Next]_vars

(***************************************************************************)
(* Properties                                                              *)
(***************************************************************************)
\* The persisted registry.
Registry == getOrEmpty(storage)

\* The call that has just completed was an updateApplication / closeApplication.
Called == last.op # "none"

\* ... whose argument carried status CLOSED.
CalledClose == Called /\ last.application.state = [status |-> CLOSED]

\* ... whose argument did not.
CalledUpdate == Called /\ last.application.state # [status |-> CLOSED]

\* Index of the uuid's first entry in a registry, 0 when it has none.
IndexIn(apps, uuid) ==
  IF \E i \in DOMAIN apps : apps[i].uuid = uuid
    THEN CHOOSE i \in DOMAIN apps :
           apps[i].uuid = uuid /\ \A j \in DOMAIN apps : apps[j].uuid = uuid => i <= j
    ELSE 0

\* The default layout the call that has just completed worked with.
CurrentDefault == buildDefaultLayoutAt(
  IF window.defined THEN window.innerHeight ELSE 1200,
  IF window.defined THEN window.innerWidth ELSE 1500)

\* C1: at most one entry per uuid is ever persisted, so
\* listApplications({uuid: X}) returns at most one entry for every X.
C1_AtMostOneEntryPerUuid ==
  \A u \in UUIDs :
    /\ Cardinality({i \in DOMAIN Registry : Registry[i].uuid = u}) <= 1
    /\ Len(getApplications(Undefined, Str(u), storage)) <= 1

\* C1 witness: an update naming a uuid that already had an entry, with a
\* second uuid's entry present, has completed.
C1_Witness ==
  /\ CalledUpdate
  /\ IndexIn(last.pre, last.application.uuid) > 0
  /\ Len(last.pre) = 2
  /\ Len(Registry) = 2

\* C2: right after a close of X, listApplications({uuid: X}) is empty, and no
\* entry with status CLOSED is ever persisted.
C2_CloseRemoves ==
  /\ CalledClose =>
       getApplications(Undefined, Str(last.application.uuid), storage) = <<>>
  /\ \A i \in DOMAIN Registry : Registry[i].state # [status |-> CLOSED]
  /\ getApplications(Str(CLOSED), Undefined, storage) = <<>>

\* C2 witness: a close of a uuid that had an entry has completed.
C2_Witness ==
  /\ CalledClose
  /\ IndexIn(last.pre, last.application.uuid) > 0

\* C3: every persisted entry has height >= 240, width >= 300, x >= 0, y >= 0.
C3_MinimumFloor ==
  \A i \in DOMAIN Registry :
    LET layout == Registry[i].layout
    IN  /\ IsNum(layout.dimension.height) /\ layout.dimension.height.n >= 240
        /\ IsNum(layout.dimension.width) /\ layout.dimension.width.n >= 300
        /\ IsNum(layout.position.x) /\ layout.position.x.n >= 0
        /\ IsNum(layout.position.y) /\ layout.position.y.n >= 0

\* C3 witness: an update whose layout gave zero, negative and null values has
\* completed and its entry is persisted.
C3_Witness ==
  /\ CalledUpdate
  /\ last.application.layout = Layout(Num(0), Num(-20), Num(-5), Null, Undefined)
  /\ IndexIn(Registry, last.application.uuid) > 0

\* The four scalar fields of a layout fragment, Undefined where the fragment
\* (or its dimension / position) is left out.
HeightOf(layout) ==
  IF DimensionOf(layout) = Undefined THEN Undefined ELSE layout.dimension.height

WidthOf(layout) ==
  IF DimensionOf(layout) = Undefined THEN Undefined ELSE layout.dimension.width

XOf(layout) ==
  IF PositionOf(layout) = Undefined THEN Undefined ELSE layout.position.x

YOf(layout) ==
  IF PositionOf(layout) = Undefined THEN Undefined ELSE layout.position.y

ZOf(layout) ==
  IF PositionOf(layout) = Undefined THEN Undefined ELSE layout.position.z

\* The fragment gives the field a value.
Supplied(v) == v # Undefined /\ v # Null

\* The persisted entry of the uuid the last call named, and the entry that
\* uuid had when the call read the registry (Undefined when it had none).
EntryNow == Registry[IndexIn(Registry, last.application.uuid)]

HadEntry == IndexIn(last.pre, last.application.uuid) > 0

EntryBefore == last.pre[IndexIn(last.pre, last.application.uuid)]

\* A first update on an empty registry whose layout is larger than the
\* default layout in both dimensions has completed.
FreshOversize ==
  /\ CalledUpdate
  /\ last.pre = <<>>
  /\ Gt(HeightOf(last.application.layout), CurrentDefault.dimension.height)
  /\ Gt(WidthOf(last.application.layout), CurrentDefault.dimension.width)

\* C4 as stated: a fresh open with an oversized layout stores the default
\* layout's height and position.y, and its width and position.x, whatever the
\* viewport.
C4_FreshOversizeStoresDefault ==
  FreshOversize =>
    /\ EntryNow.layout.dimension.height = CurrentDefault.dimension.height
    /\ EntryNow.layout.position.y = CurrentDefault.position.y
    /\ EntryNow.layout.dimension.width = CurrentDefault.dimension.width
    /\ EntryNow.layout.position.x = CurrentDefault.position.x

\* C4 amended: a fresh open with an oversized layout stores the default
\* layout's height and width; position.y (position.x) is the default layout's
\* where that is not negative, and 0 where it is negative.
C4_FreshOversizeStoresFlooredDefault ==
  FreshOversize =>
    /\ EntryNow.layout.dimension.height = CurrentDefault.dimension.height
    /\ EntryNow.layout.position.y = Num(Max(CurrentDefault.position.y.n, 0))
    /\ EntryNow.layout.dimension.width = CurrentDefault.dimension.width
    /\ EntryNow.layout.position.x = Num(Max(CurrentDefault.position.x.n, 0))

\* C4 witness: the fresh oversized open has completed in a window whose
\* default position is positive, the stored position being that default.
C4_Witness ==
  /\ FreshOversize
  /\ CurrentDefault.position.y.n > 16
  /\ EntryNow.layout.position.y = CurrentDefault.position.y
  /\ EntryNow.layout.dimension.height = Num(1168)

\* C5 as stated: when the uuid had an entry, each of height, width, x, y the
\* patch does not supply keeps its stored value.
C5_UnsuppliedFieldsKept ==
  (CalledUpdate /\ HadEntry) =>
    LET patch == last.application.layout
        old == EntryBefore.layout
        new == EntryNow.layout
    IN  /\ ~Supplied(HeightOf(patch)) => new.dimension.height = old.dimension.height
        /\ ~Supplied(WidthOf(patch)) => new.dimension.width = old.dimension.width
        /\ ~Supplied(XOf(patch)) => new.position.x = old.position.x
        /\ ~Supplied(YOf(patch)) => new.position.y = old.position.y

\* C5 amended: an unsupplied field keeps its stored value, except on an axis
\* whose merged size (the patch's if supplied, else the stored one) exceeds
\* the current default layout's: there the size becomes the default's and the
\* position the default's floored at 0.
C5_UnsuppliedFieldsKeptUnlessClamped ==
  (CalledUpdate /\ HadEntry) =>
    LET patch == last.application.layout
        old == EntryBefore.layout
        new == EntryNow.layout
        mergedHeight == IF Supplied(HeightOf(patch)) THEN HeightOf(patch)
                                                     ELSE old.dimension.height
        mergedWidth == IF Supplied(WidthOf(patch)) THEN WidthOf(patch)
                                                   ELSE old.dimension.width
    IN  /\ IF Gt(mergedHeight, CurrentDefault.dimension.height)
             THEN /\ new.dimension.height = CurrentDefault.dimension.height
                  /\ new.position.y = Num(Max(CurrentDefault.position.y.n, 0))
             ELSE /\ ~Supplied(HeightOf(patch)) =>
                       new.dimension.height = old.dimension.height
                  /\ ~Supplied(YOf(patch)) => new.position.y = old.position.y
        /\ IF Gt(mergedWidth, CurrentDefault.dimension.width)
             THEN /\ new.dimension.width = CurrentDefault.dimension.width
                  /\ new.position.x = Num(Max(CurrentDefault.position.x.n, 0))
             ELSE /\ ~Supplied(WidthOf(patch)) =>
                       new.dimension.width = old.dimension.width
                  /\ ~Supplied(XOf(patch)) => new.position.x = old.position.x

\* C5 witness: the entry had position {x: 50, y: 60}, the patch was
\* {position: {x: 999}}, and the entry now has y = 60 and x = 999.
C5_Witness ==
  /\ CalledUpdate
  /\ HadEntry
  /\ EntryBefore.layout.position.x = Num(50)
  /\ EntryBefore.layout.position.y = Num(60)
  /\ last.application.layout = Layout(Undefined, Undefined, Num(999), Undefined, Undefined)
  /\ EntryNow.layout.position.y = Num(60)
  /\ EntryNow.layout.position.x = Num(999)

\* C6 as stated: the entry persisted by an update has the position.z of the
\* merged layout (the patch's z if supplied, else the stored one, else the
\* default layout's when neither layout exists).
C6_ZPassedThrough ==
  CalledUpdate =>
    LET merged == updateLayout(last.application.layout,
                               IF HadEntry THEN EntryBefore.layout ELSE Undefined,
                               window)
    IN  IsNum(merged.position.z) => EntryNow.layout.position.z = merged.position.z

C8_OnlyOwnSlotChanges ==
  Called =>
    LET uuid == last.application.uuid
        index == IndexIn(last.pre, uuid)
    IN  IF CalledClose
          THEN Registry = SelectSeq(last.pre, LAMBDA a : a.uuid # uuid)
          ELSE IF index > 0
            THEN /\ Len(Registry) = Len(last.pre)
                 /\ Registry[index].uuid = uuid
                 /\ \A j \in DOMAIN Registry : j # index => Registry[j] = last.pre[j]
            ELSE /\ Len(Registry) = Len(last.pre) + 1
                 /\ Registry[Len(Registry)].uuid = uuid
                 /\ \A j \in DOMAIN last.pre : Registry[j] = last.pre[j]

\* C8 witness: with two entries persisted, an update has changed the first.
C8_Witness ==
  /\ CalledUpdate
  /\ Len(last.pre) = 2
  /\ IndexIn(last.pre, last.application.uuid) = 1
  /\ Registry[1] # last.pre[1]
  /\ Registry[2] = last.pre[2]

\* The layout a first update stores: the merge of the patch's layout with no
\* previous layout, validated.
ReconciledFirstLayout(layout) ==
  validateLayout([EmptyApplication EXCEPT
                    !.layout = updateLayout(layout, Undefined, window)]).layout

\* C9: on an existing entry, state and applicationConfiguration take the
\* patch's value when the patch has the field and keep the stored value when
\* it does not; without an entry the result is the patch's fields with the
\* reconciled layout.
C9_ShallowMerge ==
  CalledUpdate =>
    LET patch == last.application
    IN  IF HadEntry
          THEN /\ EntryNow.uuid = patch.uuid
               /\ EntryNow.state =
                    IF patch.state # Undefined THEN patch.state ELSE EntryBefore.state
               /\ EntryNow.applicationConfiguration =
                    IF patch.applicationConfiguration # Undefined
                      THEN patch.applicationConfiguration
                      ELSE EntryBefore.applicationConfiguration
          ELSE EntryNow = [uuid |-> patch.uuid,
                           layout |-> ReconciledFirstLayout(patch.layout),
                           state |-> patch.state,
                           applicationConfiguration |-> patch.applicationConfiguration]

\* C9 witness: an entry with state OPEN and a configuration was updated with
\* a patch that gives state MINIMIZED and no configuration.
C9_Witness ==
  /\ CalledUpdate
  /\ HadEntry
  /\ EntryBefore.state = [status |-> "OPEN"]
  /\ EntryBefore.applicationConfiguration = [name |-> "cfg2"]
  /\ last.application.state = [status |-> "MINIMIZED"]
  /\ last.application.applicationConfiguration = Undefined
  /\ EntryNow.state = [status |-> "MINIMIZED"]
  /\ EntryNow.applicationConfiguration = [name |-> "cfg2"]

\* C10: updateApplication returns undefined exactly when the patch's status
\* is CLOSED; otherwise the returned entry is the one persisted under the
\* patch's uuid.
C10_ReturnsPersistedEntry ==
  last.op = "updateApplication" =>
    /\ (last.ret = Undefined) <=> (last.application.state = [status |-> CLOSED])
    /\ last.application.state # [status |-> CLOSED] =>
         getApplications(Undefined, Str(last.application.uuid), storage) = <<last.ret>>

\* C10 witness: the first update for a uuid has returned the entry it created.
C10_Witness ==
  /\ last.op = "updateApplication"
  /\ CalledUpdate
  /\ ~HadEntry
  /\ last.ret # Undefined
  /\ last.ret = EntryNow

\* C11: a close of a uuid that has no entry returns nothing and leaves the
\* persisted registry with the same entries in the same order.
C11_CloseOfMissingIsNoOp ==
  (CalledClose /\ ~HadEntry) =>
    /\ Registry = last.pre
    /\ last.ret = Undefined
    /\ storage.has

\* C11 witness: a close of a uuid without an entry has completed while
\* another uuid's entry is persisted.
C11_Witness ==
  /\ CalledClose
  /\ ~HadEntry
  /\ Len(last.pre) = 1
  /\ Len(Registry) = 1

(***************************************************************************)
(* Layout geometry, merge and validation as functions: each action applies *)
(* one of them to inputs drawn from the sets below, in the host window of  *)
(* the initial state, and records the arguments and the result in last.    *)
(***************************************************************************)
\* Viewport heights and widths a caller passes (even, or left out).
ViewportHeights == {Null, Num(0), Num(700), Num(1000), Num(1600)}

ViewportWidths == {Null, Num(0), Num(900), Num(1200), Num(1800)}

BuildDefaultLayout ==
  /\ last = NoCall
  /\ \E h \in ViewportHeights, w \in ViewportWidths :
       last' = [op |-> "buildDefaultLayout",
                args |-> [height |-> h, width |-> w],
                ret |-> buildDefaultLayout(h, w, window)]
  /\ UNCHANGED <<storage, window, phase, calls, inflight>>

\* The layout a first update stores, and the layouts updateLayout is handed as
\* layoutPrev: none, or one a first update stored in some window.
StoredLayout(layout, win) ==
  validateLayout([EmptyApplication EXCEPT
                    !.layout = updateLayout(layout, Undefined, win)]).layout

PreviousLayouts ==
  {Undefined} \cup {StoredLayout(layout, win) : layout \in LayoutInputs, win \in Windows}

UpdateLayout ==
  /\ last = NoCall
  /\ \E layout \in LayoutInputs, layoutPrev \in PreviousLayouts :
       last' = [op |-> "updateLayout",
                args |-> [layout |-> layout, layoutPrev |-> layoutPrev],
                ret |-> updateLayout(layout, layoutPrev, window)]
  /\ UNCHANGED <<storage, window, phase, calls, inflight>>

\* Layouts handed to validateLayout: each scalar field missing, null, zero,
\* negative, below the minimum or in range.
ValidationInputs ==
  [dimension : [height : {Undefined, Num(0), Num(-20), Num(100), Num(500)},
                width : {Undefined, Null, Num(0), Num(600)}],
   position : [x : {Undefined, Num(0), Num(-5), Num(50)},
               y : {Undefined, Null, Num(60)},
               z : {Undefined, Num(7)}]]

ValidateLayout ==
  /\ last = NoCall
  /\ \E layout \in ValidationInputs, uuid \in UUIDs :
       LET app == [EmptyApplication EXCEPT !.uuid = uuid, !.layout = layout]
       IN  last' = [op |-> "validateLayout",
                    args |-> app,
                    ret |-> validateLayout(app)]
  /\ UNCHANGED <<storage, window, phase, calls, inflight>>

NextGeometry == BuildDefaultLayout \/ UpdateLayout \/ ValidateLayout \/ Return

SpecGeometry == Init /\ [][NextGeometry]_vars

\* The viewport total the claim describes: the caller's if given, else the
\* host window's, else the fallback.
ClaimedTotal(prop, inner, fallback) ==
  IF Truthy(prop) THEN prop.n ELSE IF window.defined THEN inner ELSE fallback

\* C12 as stated: buildDefaultLayout computes its layout from the caller's
\* viewport if given, else the host window's size, else 1200x1500.
C12_DefaultLayoutFromResolvedViewport ==
  last.op = "buildDefaultLayout" =>
    LET totalHeight == ClaimedTotal(last.args.height, window.innerHeight, 1200)
        totalWidth == ClaimedTotal(last.args.width, window.innerWidth, 1500)
        height == Max(Min(totalHeight, 1200), 784) - 32
        width == Max(Min(totalWidth, 1500), 980) - 32
    IN  last.ret =
          [dimension |-> [height |-> Num(height), width |-> Num(width)],
           position |-> [x |-> Num((totalWidth - width) \div 2),
                         y |-> Num((totalHeight - height) \div 2),
                         z |-> Num(10)]]

\* One field of the merge of a proposed layout over a previous one: the
\* proposed value if it is given, else the previous one if there is one.
MergedField(new, old) ==
  IF Supplied(new) THEN new ELSE IF Supplied(old) THEN old ELSE Undefined

\* C13: in the result of a merge, an axis whose merged size exceeds the
\* default layout's has the default size and the default position, every
\* other axis keeps its merged size and position, and no dimension of the
\* result exceeds the default's.
C13_DefaultClampCoupling ==
  last.op = "updateLayout" =>
    LET new == last.args.layout
        old == last.args.layoutPrev
        height == MergedField(HeightOf(new), HeightOf(old))
        width == MergedField(WidthOf(new), WidthOf(old))
        x == MergedField(XOf(new), XOf(old))
        y == MergedField(YOf(new), YOf(old))
        result == last.ret
    IN  /\ ~Gt(result.dimension.height, CurrentDefault.dimension.height)
        /\ ~Gt(result.dimension.width, CurrentDefault.dimension.width)
        /\ (new # Undefined \/ old # Undefined) =>
             /\ IF Gt(height, CurrentDefault.dimension.height)
                  THEN /\ result.dimension.height = CurrentDefault.dimension.height
                       /\ result.position.y = CurrentDefault.position.y
                  ELSE /\ result.dimension.height = height
                       /\ result.position.y = y
             /\ IF Gt(width, CurrentDefault.dimension.width)
                  THEN /\ result.dimension.width = CurrentDefault.dimension.width
                       /\ result.position.x = CurrentDefault.position.x
                  ELSE /\ result.dimension.width = width
                       /\ result.position.x = x

\* C13 witness: a previous layout at y = 60 was merged with a proposed height
\* above the default, and the result has the default height and default y.
C13_Witness ==
  /\ last.op = "updateLayout"
  /\ last.args.layoutPrev # Undefined
  /\ YOf(last.args.layoutPrev) = Num(60)
  /\ HeightOf(last.args.layout) = Num(2000)
  /\ last.ret.dimension.height = CurrentDefault.dimension.height
  /\ last.ret.position.y = CurrentDefault.position.y
  /\ last.ret.position.y # Num(60)

(***************************************************************************)
(* The registry with its readers: lifecycle calls that open, re-state and  *)
(* close applications, and the two listing operations applied to the       *)
(* registry they leave.                                                    *)
(***************************************************************************)
\* Arguments that carry a state only.
StateApplications ==
  [uuid : UUIDs, layout : {Undefined}, state : StateInputs,
   applicationConfiguration : {Undefined}]

UpdateApplicationState ==
  \E application \in StateApplications : Call("updateApplication", application, TRUE)

\* The filters handed to getApplications.
StatusFilters == {Undefined} \cup {Str(s) : s \in OpenStatuses \cup {CLOSED}}

UuidFilters == {Undefined} \cup {Str(u) : u \in UUIDs}

GetApplications ==
  /\ last = NoCall
  /\ \E status \in StatusFilters, uuid \in UuidFilters :
       last' = [op |-> "getApplications",
                args |-> [status |-> status, uuid |-> uuid],
                ret |-> getApplications(status, uuid, storage),
                pre |-> storage]
  /\ UNCHANGED <<storage, window, phase, calls, inflight>>

GetCurrentlyOpenedApplications ==
  /\ last = NoCall
  /\ last' = [op |-> "getCurrentlyOpenedApplications",
              args |-> Undefined,
              ret |-> getCurrentlyOpenedApplications(storage),
              pre |-> storage]
  /\ UNCHANGED <<storage, window, phase, calls, inflight>>

NextRead ==
  \/ UpdateApplicationState
  \/ CloseApplication
  \/ GetApplications
  \/ GetCurrentlyOpenedApplications
  \/ Return

SpecRead == Init /\ [][NextRead]_vars

\* An entry satisfies the filter: its status is the given one, if one is
\* given, and its uuid is the given one, if one is given.
MatchesFilter(app, status, uuid) ==
  /\ status # Undefined => (app.state # Undefined /\ app.state.status = status.s)
  /\ uuid # Undefined => app.uuid = uuid.s

\* C14: listApplications returns, in registry order, exactly the persisted
\* entries that satisfy the filter; listOpenApplications returns the entries
\* whose status is not CLOSED, which is the whole registry; neither changes
\* the persisted registry.
C14_ListingsFilterTheRegistry ==
  /\ last.op = "getApplications" =>
       /\ last.ret = SelectSeq(Registry, LAMBDA app :
                       MatchesFilter(app, last.args.status, last.args.uuid))
       /\ storage = last.pre
  /\ last.op = "getCurrentlyOpenedApplications" =>
       /\ last.ret = SelectSeq(Registry, LAMBDA app : app.state # [status |-> CLOSED])
       /\ last.ret = Registry
       /\ storage = last.pre

\* C14 witness: with A and B both OPEN in the registry, the filter
\* {status: OPEN, uuid: A} has returned A's entry alone.
C14_Witness ==
  /\ last.op = "getApplications"
  /\ last.args = [status |-> Str("OPEN"), uuid |-> Str("A")]
  /\ Len(Registry) = 2
  /\ \A i \in DOMAIN Registry : Registry[i].state = [status |-> "OPEN"]
  /\ Len(last.ret) = 1
  /\ last.ret[1].uuid = "A"

\* C15: applying the validation pass to the output of the validation pass
\* gives the output of the first pass.
C15_ValidationIdempotent ==
  last.op = "validateLayout" => validateLayout(last.ret) = last.ret

\* C15 witness: the validation pass has been applied to a layout it changes
\* (height missing, width zero, x negative).
C15_Witness ==
  /\ last.op = "validateLayout"
  /\ last.args.layout.dimension = [height |-> Undefined, width |-> Num(0)]
  /\ last.args.layout.position.x = Num(-5)
  /\ last.ret.layout.dimension = [height |-> Num(240), width |-> Num(300)]
  /\ last.ret.layout.position.x = Num(0)

(***************************************************************************)
(* Overlapping calls.  A call reads the registry (getApplications, line    *)
(* 206), works on the array it read and writes the whole array back (set,  *)
(* line 229); nothing locks the key between the two, so the calls of two   *)
(* callers can interleave at these two store operations.                   *)
(***************************************************************************)
\* let apps = getApplications()
RaceRead(tab) ==
  /\ inflight[tab].pc = "idle"
  /\ \E application \in Applications :
       inflight' = [inflight EXCEPT ![tab] =
                      [pc |-> "read", application |-> application,
                       snapshot |-> storage, ret |-> Undefined,
                       ops |-> <<"get">>]]
  /\ UNCHANGED <<storage, window, last, phase, calls>>

\* Mutant: the write step works on the registry as it is now, not as read.
RaceWrite_rereads(tab) ==
  /\ inflight[tab].pc = "read"
  /\ LET r == updateApplication(inflight[tab].application, storage, window)
     IN  /\ storage' = set(FilterTruthy(r.apps))
         /\ inflight' = [inflight EXCEPT ![tab].pc = "done",
                                         ![tab].ret = r.appUpdated,
                                         ![tab].ops = Append(@, "set")]
  /\ UNCHANGED <<window, last, phase, calls>>

\* Mutant: the write is skipped when the array is as it was read.
RaceWrite_skipsUnchanged(tab) ==
  /\ inflight[tab].pc = "read"
  /\ LET r == updateApplication(inflight[tab].application,
                                inflight[tab].snapshot, window)
         unchanged == r.apps = getOrEmpty(inflight[tab].snapshot)
     IN  /\ storage' = IF unchanged THEN storage ELSE set(FilterTruthy(r.apps))
         /\ inflight' = [inflight EXCEPT ![tab].pc = "done",
                                         ![tab].ret = r.appUpdated,
                                         ![tab].ops = IF unchanged THEN @
                                                      ELSE Append(@, "set")]
  /\ UNCHANGED <<window, last, phase, calls>>

\* The rest of updateApplication on the array read, up to set and return.
RaceWrite(tab) ==
  /\ inflight[tab].pc = "read"
  /\ LET r == updateApplication(inflight[tab].application,
                                inflight[tab].snapshot, window)
     IN  /\ storage' = set(FilterTruthy(r.apps))
         /\ inflight' = [inflight EXCEPT ![tab].pc = "done",
                                         ![tab].ret = r.appUpdated,
                                         ![tab].ops = Append(@, "set")]
  /\ UNCHANGED <<window, last, phase, calls>>

NextRace == \E tab \in Tabs : RaceRead(tab) \/ RaceWrite(tab)

SpecRace == Init /\ [][NextRace]_vars

\* Both callers have completed a non-CLOSED update, for different uuids, and
\* each read the registry before the other wrote it.
BothReadBeforeEitherWrote ==
  /\ \A tab \in Tabs :
       /\ inflight[tab].pc = "done"
       /\ inflight[tab].application.state # [status |-> CLOSED]
       /\ inflight[tab].snapshot = NoStorage
  /\ inflight[1].application.uuid # inflight[2].application.uuid

\* C16: when two updates for different uuids both read before either wrote,
\* the persisted registry holds the entry of one call only; the other call
\* returned an entry that is not persisted.
C16_LostUpdate ==
  BothReadBeforeEitherWrote =>
    \E kept \in Tabs, lost \in Tabs :
      /\ kept # lost
      /\ Registry = <<inflight[kept].ret>>
      /\ inflight[lost].ret # Undefined
      /\ IndexIn(Registry, inflight[lost].application.uuid) = 0

\* C16 witness: the interleaving has happened, A's update is lost and B's
\* entry alone is persisted.
C16_Witness ==
  /\ BothReadBeforeEitherWrote
  /\ inflight[1].application.uuid = "A"
  /\ inflight[1].ret.uuid = "A"
  /\ Len(Registry) = 1
  /\ Registry[1].uuid = "B"

\* The uuid has an entry in the registry.
Present(apps, uuid) == IndexIn(apps, uuid) > 0

\* C17: with calls run one after the other from an empty registry, uuid X has
\* a persisted entry exactly when some call named X and the most recent call
\* naming X was not a close; a call naming another uuid neither creates nor
\* removes X's entry.
C17_Lifecycle ==
  /\ \A uuid \in UUIDs :
       Present(Registry, uuid) <=> phase[uuid] \in {"open", "reopened"}
  /\ Called =>
       \A uuid \in UUIDs \ {last.application.uuid} :
         /\ Present(Registry, uuid) <=> Present(last.pre, uuid)
         /\ Present(Registry, uuid) =>
              Registry[IndexIn(Registry, uuid)] = last.pre[IndexIn(last.pre, uuid)]

\* C17 witness: A and B were opened; the call that has just completed closed
\* A, whose entry is gone, and left B's entry in place.
C17_Witness ==
  /\ CalledClose
  /\ last.application.uuid = "A"
  /\ phase["A"] = "closed"
  /\ last.prePhase \in {"open", "reopened"}
  /\ phase["B"] = "open"
  /\ Present(last.pre, "A")
  /\ ~Present(Registry, "A")
  /\ Present(Registry, "B")

\* An update that created the entry of its uuid has completed.
CreatedEntry == CalledUpdate /\ ~HadEntry

\* The entry created without any layout in the patch holds the default
\* layout's dimension and the default layout's position floored at 0.
CreatedWithoutLayoutHoldsDefault ==
  (CreatedEntry /\ ~Truthy(last.application.layout)) =>
    /\ EntryNow.layout.dimension = CurrentDefault.dimension
    /\ EntryNow.layout.position.x = Num(Max(CurrentDefault.position.x.n, 0))
    /\ EntryNow.layout.position.y = Num(Max(CurrentDefault.position.y.n, 0))

\* C18 as stated: in an entry created from a patch with a layout, each of
\* height, width, x, y the layout leaves undefined is persisted as 240, 300,
\* 0, 0; the default layout is used only when the patch has no layout.
C18_MissingFieldsGetMinimum ==
  /\ (CreatedEntry /\ Truthy(last.application.layout)) =>
       LET patch == last.application.layout
           new == EntryNow.layout
       IN  /\ ~Supplied(HeightOf(patch)) =>
                new.dimension.height = minimumLayout.dimension.height
           /\ ~Supplied(WidthOf(patch)) =>
                new.dimension.width = minimumLayout.dimension.width
           /\ ~Supplied(XOf(patch)) => new.position.x = minimumLayout.position.x
           /\ ~Supplied(YOf(patch)) => new.position.y = minimumLayout.position.y
  /\ CreatedWithoutLayoutHoldsDefault

\* C18 amended: an undefined height is persisted as 240 and an undefined width
\* as 300; an undefined y (x) is persisted as 0 unless the layout's height
\* (width) exceeds the default layout's, in which case it is the default
\* layout's y (x) floored at 0; without any layout the entry holds the default
\* dimension and the default position floored at 0.
C18_MissingFieldsGetMinimumUnlessClamped ==
  /\ (CreatedEntry /\ Truthy(last.application.layout)) =>
       LET patch == last.application.layout
           new == EntryNow.layout
           clampH == Gt(HeightOf(patch), CurrentDefault.dimension.height)
           clampW == Gt(WidthOf(patch), CurrentDefault.dimension.width)
       IN  /\ ~Supplied(HeightOf(patch)) =>
                new.dimension.height = minimumLayout.dimension.height
           /\ ~Supplied(WidthOf(patch)) =>
                new.dimension.width = minimumLayout.dimension.width
           /\ ~Supplied(XOf(patch)) =>
                new.position.x = IF clampW
                                   THEN Num(Max(CurrentDefault.position.x.n, 0))
                                   ELSE minimumLayout.position.x
           /\ ~Supplied(YOf(patch)) =>
                new.position.y = IF clampH
                                   THEN Num(Max(CurrentDefault.position.y.n, 0))
                                   ELSE minimumLayout.position.y
  /\ CreatedWithoutLayoutHoldsDefault

\* C18 witness: an entry was created from a layout that gives position.x
\* only, in a window whose default layout is larger than the minimum and off
\* the origin; height, width and y were persisted as 240, 300 and 0.
C18_Witness ==
  /\ CreatedEntry
  /\ Supplied(XOf(last.application.layout))
  /\ ~Supplied(HeightOf(last.application.layout))
  /\ ~Supplied(WidthOf(last.application.layout))
  /\ ~Supplied(YOf(last.application.layout))
  /\ CurrentDefault.position.y.n > 0
  /\ EntryNow.layout.dimension = [height |-> Num(240), width |-> Num(300)]
  /\ EntryNow.layout.position.y = Num(0)

(***************************************************************************)
(* Calls in a viewport that stays as it is: the same operations without    *)
(* the resize, and a caller that asks for the maximum layout.              *)
(***************************************************************************)
\* updateApplication({uuid, layout: buildMaximumLayout()})
MaximizeApplication ==
  \E uuid \in UUIDs :
    Call("updateApplication",
         [uuid |-> uuid, layout |-> buildMaximumLayout(Null, Null, window),
          state |-> Undefined, applicationConfiguration |-> Undefined],
         TRUE)

NextFixedWindow ==
  UpdateApplication \/ CloseApplication \/ MaximizeApplication \/ Return

SpecFixedWindow == Init /\ [][NextFixedWindow]_vars

\* C19: in a viewport that does not change, every persisted entry is at most
\* as high and as wide as the default layout, whatever layout was passed; the
\* maximum layout of a viewport larger than 1200x1500 is persisted with the
\* default dimension.
C19_PersistedSizeAtMostDefault ==
  /\ \A i \in DOMAIN Registry :
       /\ Registry[i].layout.dimension.height.n <= CurrentDefault.dimension.height.n
       /\ Registry[i].layout.dimension.width.n <= CurrentDefault.dimension.width.n
  /\ ( /\ CalledUpdate
       /\ window.defined /\ window.innerHeight > 1200 /\ window.innerWidth > 1500
       /\ last.application.layout = buildMaximumLayout(Null, Null, window) ) =>
       EntryNow.layout.dimension = CurrentDefault.dimension

\* C19 witness: in a 1400x2000 window the maximum layout, 1368x1968, was
\* passed and the entry is persisted as 1168x1468.
C19_Witness ==
  /\ CalledUpdate
  /\ window.defined /\ window.innerHeight = 1400 /\ window.innerWidth = 2000
  /\ last.application.layout = buildMaximumLayout(Null, Null, window)
  /\ last.application.layout.dimension = [height |-> Num(1368), width |-> Num(1968)]
  /\ EntryNow.layout.dimension = [height |-> Num(1168), width |-> Num(1468)]

\* C20: a call reads the registry key once and then writes the full registry
\* once, on every path; what is written has no null or absent slot.
C20_OneReadThenOneWrite ==
  /\ \A tab \in Tabs :
       /\ inflight[tab].pc = "idle" => inflight[tab].ops = <<>>
       /\ inflight[tab].pc = "read" => inflight[tab].ops = <<"get">>
       /\ inflight[tab].pc = "done" => inflight[tab].ops = <<"get", "set">>
  /\ storage.has <=> \E tab \in Tabs : inflight[tab].pc = "done"
  /\ \A i \in DOMAIN storage.value : Truthy(storage.value[i])

\* C20 witness: one caller created A's entry; the other then closed B, which
\* has no entry, and still read once and wrote once.
C20_Witness ==
  /\ \A tab \in Tabs : inflight[tab].ops = <<"get", "set">>
  /\ inflight[1].application.uuid = "A"
  /\ inflight[1].snapshot = NoStorage
  /\ inflight[2].application = closeArgument("B")
  /\ inflight[2].snapshot = set(<<inflight[1].ret>>)
  /\ storage = inflight[2].snapshot

====
